---- MODULE Spec2Model ----
(***************************************************************************)
(* Model of audit_events.go (package libaudit): the four streaming drivers *)
(* GetAuditEvents, GetRawAuditEvents, GetRawAuditMessages and              *)
(* GetAuditMessages, the event decoder NewAuditEvent and the frame         *)
(* splitter that GetRawAuditMessages runs over a raw netlink buffer.       *)
(*                                                                         *)
(* Go strings and byte slices are sequences of byte values (0..255).       *)
(***************************************************************************)
EXTENDS Integers, Sequences, FiniteSets, TLC

(* ---------------------------------------------------------------------- *)
(* Bounds of the model                                                     *)
(* ---------------------------------------------------------------------- *)

\* frames (or pre-split messages) one Transport read can return
MaxFrames == 2

(* ---------------------------------------------------------------------- *)
(* Wire constants of the host transport (package syscall)                  *)
(* ---------------------------------------------------------------------- *)

NLMSG_HDRLEN == 16

NLMSG_ALIGNTO == 4

NLMSG_ERROR == 2

\* a type code that has a registered symbolic name (AUDIT_SYSCALL)
AUDIT_SYSCALL == 1300

\* a type code that has no registered symbolic name
UNREGISTERED == 9999

(* ---------------------------------------------------------------------- *)
(* Byte strings                                                            *)
(* ---------------------------------------------------------------------- *)

\* b[lo:hi] of Go, for 0 <= lo <= hi <= len(b)
Slice(s, lo, hi) == SubSeq(s, lo + 1, hi)

\* b[lo:] of Go, for 0 <= lo <= len(b)
SliceFrom(s, lo) == SubSeq(s, lo + 1, Len(s))

\* a sequence of n zero bytes
Zeros(n) == [k \in 1..n |-> 0]

\* filler text of n bytes: "ABC..."
Fill(n) == [k \in 1..n |-> 64 + k]

\* the little-endian encoding of a 32-bit word given as its signed value
PutInt32(v) ==
    LET lo == IF v < 0 THEN v + 2147483647 + 1 ELSE v   \* the low 31 bits
    IN  << lo % 256,
           (lo \div 256) % 256,
           (lo \div 65536) % 256,
           ((lo \div 16777216) % 128) + (IF v < 0 THEN 128 ELSE 0) >>

\* the little-endian encoding of a 16-bit word
PutUint16(v) == << v % 256, (v \div 256) % 256 >>

\* int32(nativeEndian().Uint32(s)) on a little-endian host: the
\* two's-complement value of the 32-bit word held in s[1..4]
Int32LE(s) ==
    s[1] + 256 * s[2] + 65536 * s[3]
         + 16777216 * (IF s[4] >= 128 THEN s[4] - 256 ELSE s[4])

\* int(h.Len): the unsigned value of the 32-bit length field.  A word with
\* the top bit set is at least 2^31, more than the length of any buffer of
\* the model; it is held as 2^31 - 1, which every comparison the code makes
\* with it answers alike.
Uint32LE(s) ==
    IF s[4] >= 128 THEN 2147483647
    ELSE s[1] + 256 * s[2] + 65536 * s[3] + 16777216 * s[4]

\* h.Type: the 16-bit type field, bytes 4..5 of the header
Uint16LE(s) == s[1] + 256 * s[2]

\* strconv.Itoa for n >= 0: the decimal digits of n as ASCII bytes
RECURSIVE Itoa(_)
Itoa(n) == IF n < 10 THEN << 48 + n >>
           ELSE Itoa(n \div 10) \o << 48 + (n % 10) >>

(* ---------------------------------------------------------------------- *)
(* String literals of the source                                           *)
(* ---------------------------------------------------------------------- *)

\* "auditConstant("
StrPlaceholderOpen == << 97, 117, 100, 105, 116, 67, 111, 110, 115, 116, 97, 110, 116, 40 >>

\* ")"
StrPlaceholderClose == << 41 >>

\* "AUDIT_SYSCALL"
StrAuditSyscall == << 65, 85, 68, 73, 84, 95, 83, 89, 83, 67, 65, 76, 76 >>

\* "type="
StrTypeEq == << 116, 121, 112, 101, 61 >>

\* " msg="
StrMsgEq == << 32, 109, 115, 103, 61 >>

\* "\n"
StrNewline == << 10 >>

(* ---------------------------------------------------------------------- *)
(* Errors and events                                                       *)
(* ---------------------------------------------------------------------- *)

\* the nil error
ErrNil == [kind |-> "nil", code |-> 0]

\* fmt.Errorf("error receiving events %d", v)
ErrReceiving(v) == [kind |-> "error receiving events", code |-> v]

\* fmt.Errorf("NewAuditEvent failed: unknown message type %d", msg.Header.Type)
ErrUnknownMessageType(t) == [kind |-> "NewAuditEvent failed: unknown message type", code |-> t]

\* errors.New("Unknown Type: " + string(msg.Header.Type)); the text after
\* the colon is the rune whose code point is the type, kept here as the code
ErrUnknownType(t) == [kind |-> "Unknown Type: ", code |-> t]

\* the error of the text-record parser
ErrParse == [kind |-> "ParseAuditEvent failed", code |-> 0]

\* a nil *AuditEvent
NilEvent == [nil |-> TRUE, Type |-> << >>, Raw |-> << >>]

\* Type.String() of the stringer-generated auditConstant: the symbolic
\* name of a registered code, the placeholder "auditConstant(N)" otherwise
auditConstantString(t) ==
    IF t = AUDIT_SYSCALL THEN StrAuditSyscall
    ELSE StrPlaceholderOpen \o Itoa(t) \o StrPlaceholderClose

\* what the text-record parser can answer for one payload
ParseOutcomes == {"ok", "error"}

\* ParseAuditEvent(str, msgType, true): an event typed by the symbolic type
\* it was given, with Raw the text it was given, or the parser's error
ParseAuditEvent(str, typeName, outcome) ==
    IF outcome = "ok"
    THEN [x |-> [nil |-> FALSE, Type |-> typeName, Raw |-> str], err |-> ErrNil]
    ELSE [x |-> NilEvent, err |-> ErrParse]

\* a NetlinkMessage, as far as the drivers read it
NetlinkMessage(t, data) == [Type |-> t, Data |-> data]

\* NewAuditEvent, had it returned the parser's event without looking at
\* its type
NewAuditEventUnchecked(msg, outcome) ==
    LET r == ParseAuditEvent(msg.Data, auditConstantString(msg.Type), outcome)
    IN  IF r.err # ErrNil THEN [x |-> NilEvent, err |-> r.err]
        ELSE [x |-> r.x, err |-> ErrNil]

\* NewAuditEvent, had it resolved the type before it called the parser
NewAuditEventTypeFirst(msg, outcome) ==
    IF auditConstantString(msg.Type) = StrPlaceholderOpen \o Itoa(msg.Type) \o StrPlaceholderClose
    THEN [x |-> NilEvent, err |-> ErrUnknownMessageType(msg.Type)]
    ELSE LET r == ParseAuditEvent(msg.Data, auditConstantString(msg.Type), outcome)
         IN  IF r.err # ErrNil THEN [x |-> NilEvent, err |-> r.err]
             ELSE [x |-> r.x, err |-> ErrNil]

\* NewAuditEvent(msg)
NewAuditEvent(msg, outcome) ==
    LET r == ParseAuditEvent(msg.Data, auditConstantString(msg.Type), outcome)
    IN  IF r.err # ErrNil
        THEN [x |-> NilEvent, err |-> r.err]
        ELSE IF r.x.Type = StrPlaceholderOpen \o Itoa(msg.Type) \o StrPlaceholderClose
             THEN [x |-> NilEvent, err |-> ErrUnknownMessageType(msg.Type)]
             ELSE [x |-> r.x, err |-> ErrNil]

(* ---------------------------------------------------------------------- *)
(* The loop bodies of the drivers that read pre-split messages: the        *)
(* callback invocations made for one message, in order                     *)
(* ---------------------------------------------------------------------- *)

\* one invocation of an EventCallback
EventCall(ev, err) == [ev |-> ev, err |-> err]

\* one invocation of a RawEventCallback
RawEventCall(m, err) == [m |-> m, err |-> err]

\* one invocation of a RawEventTypeCallback
RawEventTypeCall(t, m, err) == [type |-> t, m |-> m, err |-> err]

\* GetAuditEventsBody, had it called back only for an event that decoded
GetAuditEventsBodyOnSuccess(msg, outcome) ==
    IF msg.Type = NLMSG_ERROR
    THEN LET err == Int32LE(Slice(msg.Data, 0, 4))
         IN  IF err # 0 THEN << EventCall(NilEvent, ErrReceiving(err)) >> ELSE << >>
    ELSE LET r == NewAuditEvent(msg, outcome)
         IN  IF r.err = ErrNil THEN << EventCall(r.x, r.err) >> ELSE << >>

\* GetAuditEvents, the body of "for _, msg := range msgs"
GetAuditEventsBody(msg, outcome) ==
    IF msg.Type = NLMSG_ERROR
    THEN LET err == Int32LE(Slice(msg.Data, 0, 4))
         IN  IF err # 0 THEN << EventCall(NilEvent, ErrReceiving(err)) >> ELSE << >>
    ELSE LET r == NewAuditEvent(msg, outcome)
         IN  << EventCall(r.x, r.err) >>

\* GetAuditMessages, the body of "for _, msg := range msgs"
GetAuditMessagesBody(msg, outcome) ==
    IF msg.Type = NLMSG_ERROR
    THEN LET v == Int32LE(Slice(msg.Data, 0, 4))
         IN  IF v # 0 THEN << EventCall(NilEvent, ErrReceiving(v)) >> ELSE << >>
    ELSE LET r == NewAuditEvent(msg, outcome)
         IN  << EventCall(r.x, r.err) >>

\* GetRawAuditEvents, the body of "for _, msg := range msgs": the call
\* inside the error branch, then the call that ends every iteration
GetRawAuditEventsBody(msg) ==
    LET name == auditConstantString(msg.Type)
        inner == IF msg.Type = NLMSG_ERROR
                 THEN LET v == Int32LE(Slice(msg.Data, 0, 4))
                      IN  IF v # 0 THEN << RawEventCall(<< >>, ErrReceiving(v)) >> ELSE << >>
                 ELSE << >>
        unknown == name = StrPlaceholderOpen \o Itoa(msg.Type) \o StrPlaceholderClose
        m == IF msg.Type = NLMSG_ERROR \/ unknown THEN << >>
             ELSE StrTypeEq \o SliceFrom(name, 6) \o StrMsgEq \o msg.Data \o StrNewline
        err == IF msg.Type # NLMSG_ERROR /\ unknown THEN ErrUnknownType(msg.Type) ELSE ErrNil
    IN  inner \o << RawEventCall(m, err) >>

(* ---------------------------------------------------------------------- *)
(* The frame splitter of GetRawAuditMessages                               *)
(* ---------------------------------------------------------------------- *)

\* nlmAlignOf(msglen): msglen rounded up to a multiple of NLMSG_ALIGNTO
nlmAlignOf(msglen) ==
    ((msglen + NLMSG_ALIGNTO - 1) \div NLMSG_ALIGNTO) * NLMSG_ALIGNTO

\* What lies behind the end of a slice: whether its capacity reaches 4 bytes
\* (roomy) and the value of the bytes between its length and its capacity.
\* Neither is fixed by the driver: the buffer is allocated by the Transport.
Beyond == [roomy : BOOLEAN, stale : {0, 255}]

\* b[0:4] of a slice: its first four bytes; when the slice is shorter than
\* four bytes the expression reaches into its capacity
FirstWord(b, beyond) ==
    IF Len(b) >= 4 THEN Slice(b, 0, 4)
    ELSE b \o [k \in 1..(4 - Len(b)) |-> beyond.stale]

\* Advance, had the step been by the aligned size of the whole frame though
\* the header is already cut off
AdvanceWholeFrame(b1, dlen) ==
    IF dlen + NLMSG_HDRLEN > Len(b1) THEN [ok |-> FALSE, b |-> b1]
    ELSE [ok |-> TRUE, b |-> SliceFrom(b1, dlen + NLMSG_HDRLEN)]

\* b = b[dlen:], for the b behind the header: the slice expression panics
\* when dlen exceeds len(b)
Advance(b1, dlen) ==
    IF dlen > Len(b1) THEN [ok |-> FALSE, b |-> b1]
    ELSE [ok |-> TRUE, b |-> SliceFrom(b1, dlen)]

\* FrameData, had the header size been subtracted in the quirk branch too
FrameDataTrimmed(b1, hLen, quirk) == Slice(b1, 0, hLen - NLMSG_HDRLEN)

\* the text handed to the callback, for the b behind the header:
\* string(b[:h.Len]) in the quirk branch, string(b[:h.Len-NLMSG_HDRLEN])
\* in the other
FrameData(b1, hLen, quirk) ==
    IF quirk THEN Slice(b1, 0, hLen)
    ELSE Slice(b1, 0, hLen - NLMSG_HDRLEN)

\* CutHeader, had the header been left in b
HeaderKept(b) == b

\* b = b[syscall.NLMSG_HDRLEN:], for a b that holds a whole header
CutHeader(b) == SliceFrom(b, NLMSG_HDRLEN)

\* BadHeaderEnd, had the loop skipped the header and gone on ("continue")
\* instead of stopping
BadHeaderSkipped(b, head) ==
    [end |-> "next", made |-> << >>, b |-> SliceFrom(b, NLMSG_HDRLEN), head |-> head]

\* "break": how an iteration ends whose header announces a length below
\* the header size or above len(b)
BadHeaderEnd(b, head) ==
    [end |-> "break", made |-> << >>, b |-> b, head |-> head]

\* One iteration of "for len(b) >= syscall.NLMSG_HDRLEN", for a b that
\* passes the loop condition.  The answer tells how the iteration ends
\* ("break", "next" or "panic"), the callback invocations it makes, the
\* slice b it leaves, and the header it read.
SplitIteration(b, beyond) ==
    LET hLen  == Uint32LE(Slice(b, 0, 4))
        hType == Uint16LE(Slice(b, 4, 6))
        b1    == CutHeader(b)
        dlen  == nlmAlignOf(hLen) - NLMSG_HDRLEN
        quirk == Len(b1) = hLen \/ dlen = hLen
        data  == FrameData(b1, hLen, quirk)
        v     == Int32LE(FirstWord(b1, beyond))
        made  == IF hType = NLMSG_ERROR
                 THEN IF v # 0
                      THEN << RawEventTypeCall(hType, data, ErrReceiving(v)) >>
                      ELSE << >>
                 ELSE << RawEventTypeCall(hType, data, ErrNil) >>
        head  == [type |-> hType, len |-> hLen, quirk |-> quirk,
                  code |-> IF hType = NLMSG_ERROR THEN v ELSE 0,
                  short |-> Len(b1) < 4]
    IN  IF hLen < NLMSG_HDRLEN \/ hLen > Len(b)
        THEN BadHeaderEnd(b, head)
        ELSE IF hType = NLMSG_ERROR /\ Len(b1) < 4 /\ ~beyond.roomy
        THEN [end |-> "panic", made |-> << >>, b |-> b1, head |-> head]
        ELSE IF ~Advance(b1, dlen).ok
        THEN [end |-> "panic", made |-> made, b |-> b1, head |-> head]
        ELSE [end |-> "next", made |-> made, b |-> Advance(b1, dlen).b, head |-> head]

(* ---------------------------------------------------------------------- *)
(* What the Transport can return                                           *)
(* ---------------------------------------------------------------------- *)

\* every sequence over S of length 0..n
SeqsUpTo(S, n) == UNION { [1..k -> S] : k \in 0..n }

\* the codes an error frame carries: the acknowledgment and -EPERM
ErrCodes == {0, -1}

\* the messages Receive hands over pre-split; an error message carries its
\* 4-byte code
Messages ==
    { NetlinkMessage(AUDIT_SYSCALL, Fill(4)),
      NetlinkMessage(AUDIT_SYSCALL, << >>),
      NetlinkMessage(UNREGISTERED, Fill(4)) }
    \cup { NetlinkMessage(NLMSG_ERROR, PutInt32(c)) : c \in ErrCodes }

\* the results of a successful Receive
MessageLists == SeqsUpTo(Messages, MaxFrames)

\* the 16 bytes of a struct nlmsghdr: Len, Type, Flags, Seq, Pid
Header(len, type) == PutInt32(len) \o PutUint16(type) \o Zeros(10)

\* One frame as the kernel lays it out: a header announcing len and type,
\* followed by the n bytes of body: for an error frame the code and zero
\* bytes, cut to n bytes; text otherwise.
Chunk(len, type, code, n) ==
    [len |-> len, type |-> type, code |-> code,
     body |-> IF type = NLMSG_ERROR THEN Slice(PutInt32(code) \o Zeros(n), 0, n)
              ELSE Fill(n)]

\* frames padded to the alignment boundary
PaddedChunks ==
    { Chunk(l, AUDIT_SYSCALL, 0, nlmAlignOf(l) - NLMSG_HDRLEN) : l \in {16, 17, 20} }
    \cup { Chunk(20, UNREGISTERED, 0, 4) }
    \cup { Chunk(20, NLMSG_ERROR, c, 4) : c \in ErrCodes }

\* frames that are not: without padding, with the header length counting
\* the payload alone, with a header length below the header size, cut
\* short, and an error frame without a code
OddChunks ==
    { Chunk(17, AUDIT_SYSCALL, 0, 1),
      Chunk(17, AUDIT_SYSCALL, 0, 17),
      Chunk(20, AUDIT_SYSCALL, 0, 20),
      Chunk(12, AUDIT_SYSCALL, 0, 0),
      Chunk(24, AUDIT_SYSCALL, 0, 4),
      Chunk(16, NLMSG_ERROR, 0, 0) }

Chunks == PaddedChunks \cup OddChunks

\* the number of stray bytes behind the last frame of a buffer
TailLens == 0..(NLMSG_HDRLEN - 1)

\* what a buffer is made of: frames, then stray bytes
Layouts == [chunks : SeqsUpTo(Chunks, MaxFrames), tail : TailLens]

\* the concatenation of a sequence of byte strings
RECURSIVE Concat(_)
Concat(ss) == IF ss = << >> THEN << >> ELSE Head(ss) \o Concat(Tail(ss))

\* the bytes of a frame
Encode(c) == Header(c.len, c.type) \o c.body

\* the bytes of a buffer
Buffer(layout) ==
    Concat([k \in 1..Len(layout.chunks) |-> Encode(layout.chunks[k])])
      \o [k \in 1..layout.tail |-> 126]

(* ---------------------------------------------------------------------- *)
(* The drivers                                                             *)
(* ---------------------------------------------------------------------- *)

Drivers == {"GetAuditEvents", "GetRawAuditEvents", "GetRawAuditMessages", "GetAuditMessages"}

\* the drivers that take a done channel
Cancellable == {"GetRawAuditMessages", "GetAuditMessages"}

\* the drivers that read with s.Receive
PreSplit == {"GetAuditEvents", "GetRawAuditEvents", "GetAuditMessages"}

VARIABLES
    driver,     \* the driver that runs
    pc,         \* where it is: "select", "receive", "dispatch", "returned", "panicked"
    done,       \* a value has been sent on the done channel, or it was closed
    msgs,       \* the messages of the last Receive
    idx,        \* how many of them the range loop has taken
    rbuf,       \* the buffer of the last ReceiveNoParse
    b,          \* the slice b of the splitter: what is left of rbuf
    calls,      \* the callback invocations of the current cycle, in order, each
                \* with the place (message index, frame offset) it was made for
    seen,       \* the frames the current cycle has processed, with their places
    lastRead,   \* how the read of the current cycle ended: "pending", "ok", "err"
    layout,     \* what rbuf was made of
    sinceDone   \* read-and-dispatch cycles under way or begun since the signal

vars == << driver, pc, done, msgs, idx, rbuf, b, calls, seen, lastRead, layout, sinceDone >>

NoLayout == [chunks |-> << >>, tail |-> 0]

Init ==
    /\ driver \in Drivers
    /\ pc = "select"
    /\ done = FALSE
    /\ msgs = << >>
    /\ idx = 0
    /\ rbuf = << >>
    /\ b = << >>
    /\ calls = << >>
    /\ seen = << >>
    /\ lastRead = "pending"
    /\ layout = NoLayout
    /\ sinceDone = 0

\* the callback invocations cs, each marked with the place it was made for
At(place, cs) == [k \in 1..Len(cs) |-> [at |-> place, cb |-> cs[k]]]

\* The caller sends on the done channel or closes it.
Signal ==
    /\ driver \in Cancellable
    /\ ~done
    /\ pc # "panicked"
    /\ done' = TRUE
    /\ sinceDone' = IF pc \in {"receive", "dispatch"} THEN 1 ELSE 0
    /\ UNCHANGED << driver, pc, msgs, idx, rbuf, b, calls, seen, lastRead, layout >>

\* DefaultRuns, had select picked among its cases without regard to the
\* done channel
DefaultRunsAnyway(d, signalled) == TRUE

\* select: the default case runs only when no other case is ready; the
\* drivers without a done channel have no other case
DefaultRuns(d, signalled) == d \notin Cancellable \/ ~signalled

\* SelectDone, had the done channel been polled inside the read and between
\* the frames of one read as well
SelectDoneAnywhere ==
    /\ pc \in {"select", "receive", "dispatch"}
    /\ ~DefaultRuns(driver, done)
    /\ pc' = "returned"
    /\ UNCHANGED << driver, done, msgs, idx, rbuf, b, calls, seen, lastRead, layout, sinceDone >>

\* select, case <-*done: return
SelectDone ==
    /\ pc = "select"
    /\ ~DefaultRuns(driver, done)
    /\ pc' = "returned"
    /\ UNCHANGED << driver, done, msgs, idx, rbuf, b, calls, seen, lastRead, layout, sinceDone >>

\* select, default: call the Transport
SelectDefault ==
    /\ pc = "select"
    /\ DefaultRuns(driver, done)
    /\ pc' = "receive"
    /\ msgs' = << >>
    /\ idx' = 0
    /\ rbuf' = << >>
    /\ b' = << >>
    /\ calls' = << >>
    /\ seen' = << >>
    /\ lastRead' = "pending"
    /\ layout' = NoLayout
    /\ sinceDone' = IF done THEN sinceDone + 1 ELSE sinceDone
    /\ UNCHANGED << driver, done >>

\* AfterReadError, had the driver handed the read error to the callback
AfterReadErrorForwarded ==
    [pc |-> "select", made |-> << [err |-> [kind |-> "read", code |-> 0]] >>]

\* what a driver does with a read that returned an error: "if err == nil"
\* has no else, the loop goes round
AfterReadError == [pc |-> "select", made |-> << >>]

\* the read returns an error
ReceiveErr ==
    /\ pc = "receive"
    /\ pc' = AfterReadError.pc
    /\ calls' = calls \o At(0, AfterReadError.made)
    /\ lastRead' = "err"
    /\ UNCHANGED << driver, done, msgs, idx, rbuf, b, seen, layout, sinceDone >>

\* s.Receive returns messages
ReceiveOk ==
    /\ pc = "receive"
    /\ driver \in PreSplit
    /\ \E ms \in MessageLists : msgs' = ms
    /\ pc' = "dispatch"
    /\ lastRead' = "ok"
    /\ UNCHANGED << driver, done, idx, rbuf, b, calls, seen, layout, sinceDone >>

\* s.ReceiveNoParse returns a buffer
ReceiveNoParseOk ==
    /\ pc = "receive"
    /\ driver = "GetRawAuditMessages"
    /\ \E l \in Layouts :
         /\ layout' = l
         /\ rbuf' = Buffer(l)
         /\ b' = Buffer(l)
    /\ pc' = "dispatch"
    /\ lastRead' = "ok"
    /\ UNCHANGED << driver, done, msgs, idx, calls, seen, sinceDone >>

\* RangeIndex, had the loop walked the messages from the last to the first
RangeIndexBackwards(n, k) == n + 1 - k

\* "for _, msg := range msgs": the element the k-th iteration takes, of n
RangeIndex(n, k) == k

\* what the text-record parser answered for one message, "none" when it was
\* not called: NewAuditEvent calls it in its first statement, and
\* NewAuditEvent is called for every message that is not an error message
\* by GetAuditEvents and GetAuditMessages, never by GetRawAuditEvents
ParserAnswer(d, msg, outcome) ==
    IF d \in {"GetAuditEvents", "GetAuditMessages"} /\ msg.Type # NLMSG_ERROR
    THEN outcome
    ELSE "none"

\* the callback invocations a pre-split driver makes for one message
LoopBody(d, msg, outcome) ==
    CASE d = "GetAuditEvents"    -> GetAuditEventsBody(msg, outcome)
      [] d = "GetAuditMessages"  -> GetAuditMessagesBody(msg, outcome)
      [] d = "GetRawAuditEvents" -> GetRawAuditEventsBody(msg)

\* one iteration of the range loop
RangeStep ==
    /\ pc = "dispatch"
    /\ driver \in PreSplit
    /\ idx < Len(msgs)
    /\ LET place == RangeIndex(Len(msgs), idx + 1)
           msg   == msgs[place]
       IN  \E outcome \in ParseOutcomes :
               /\ calls' = calls \o At(place, LoopBody(driver, msg, outcome))
               /\ seen' = Append(seen, [at |-> place, type |-> msg.Type,
                                        code |-> IF msg.Type = NLMSG_ERROR
                                                 THEN Int32LE(msg.Data) ELSE 0,
                                        short |-> Len(msg.Data) < 4,
                                        parse |-> ParserAnswer(driver, msg, outcome)])
    /\ idx' = idx + 1
    /\ UNCHANGED << driver, pc, done, msgs, rbuf, b, lastRead, layout, sinceDone >>

\* the range loop has taken every message
RangeEnd ==
    /\ pc = "dispatch"
    /\ driver \in PreSplit
    /\ idx = Len(msgs)
    /\ pc' = "select"
    /\ UNCHANGED << driver, done, msgs, idx, rbuf, b, calls, seen, lastRead, layout, sinceDone >>

\* one iteration of the splitter loop
SplitStep ==
    /\ pc = "dispatch"
    /\ driver = "GetRawAuditMessages"
    /\ Len(b) >= NLMSG_HDRLEN
    /\ \E beyond \in Beyond :
         LET r     == SplitIteration(b, beyond)
             place == Len(rbuf) - Len(b)
         IN  /\ pc' = CASE r.end = "break" -> "select"
                        [] r.end = "panic" -> "panicked"
                        [] r.end = "next"  -> "dispatch"
             /\ b' = r.b
             /\ calls' = calls \o At(place, r.made)
             /\ seen' = IF r.end = "break" THEN seen
                        ELSE Append(seen, [at |-> place] @@ r.head)
    /\ UNCHANGED << driver, done, msgs, idx, rbuf, lastRead, layout, sinceDone >>

\* the splitter loop ends: fewer than NLMSG_HDRLEN bytes are left
SplitEnd ==
    /\ pc = "dispatch"
    /\ driver = "GetRawAuditMessages"
    /\ Len(b) < NLMSG_HDRLEN
    /\ pc' = "select"
    /\ UNCHANGED << driver, done, msgs, idx, rbuf, b, calls, seen, lastRead, layout, sinceDone >>

\* a step of the driver
Step ==
    \/ SelectDone
    \/ SelectDefault
    \/ ReceiveErr
    \/ ReceiveOk
    \/ ReceiveNoParseOk
    \/ RangeStep
    \/ RangeEnd
    \/ SplitStep
    \/ SplitEnd

Next == Signal \/ Step

Spec == Init /\ [][Next]_vars

\* every Transport read and every callback returns, and the driver runs on
FairSpec == Spec /\ WF_vars(Step)

(* ---------------------------------------------------------------------- *)
(* Claims                                                                  *)
(* ---------------------------------------------------------------------- *)

\* the number of callback invocations made for the frame at place p
CallsAt(p) == Cardinality({k \in 1..Len(calls) : calls[k].at = p})

\* the callback invocations of the cycle, without their places
Delivered == [k \in 1..Len(calls) |-> calls[k].cb]

\* a successful read has been dispatched to its end
CycleOver == lastRead = "ok" /\ pc \in {"select", "returned", "panicked"}

\* the type code of a regular frame that has no registered symbolic name
Unregistered(t) ==
    /\ t # NLMSG_ERROR
    /\ auditConstantString(t) = StrPlaceholderOpen \o Itoa(t) \o StrPlaceholderClose

\* every frame of the layout is padded to the alignment boundary
AllPadded(l) == \A k \in 1..Len(l.chunks) : l.chunks[k] \in PaddedChunks

\* no frame of the layout is an error frame
AllRegular(l) == \A k \in 1..Len(l.chunks) : l.chunks[k].type # NLMSG_ERROR

\* the offset of the k-th frame of a layout in its buffer
ChunkOffset(l, k) == Len(Concat([j \in 1..(k - 1) |-> Encode(l.chunks[j])]))

\* C1: in every driver an error frame with code 0 produces no callback
\* invocation, and an error frame with a code other than 0 produces exactly
\* one, carrying that code.
C1_ErrorFrameCallbacks ==
    \A j \in 1..Len(seen) :
        (seen[j].type = NLMSG_ERROR /\ ~seen[j].short) =>
            IF seen[j].code = 0 THEN CallsAt(seen[j].at) = 0
            ELSE /\ CallsAt(seen[j].at) = 1
                 /\ \A k \in 1..Len(calls) :
                        calls[k].at = seen[j].at =>
                            calls[k].cb.err = ErrReceiving(seen[j].code)

\* C2: once the done channel is signalled a cancellable driver completes at
\* most one more read-and-dispatch cycle: the one under way when the signal
\* came; it starts no read after it.
C2_AtMostOneMoreCycle ==
    driver \in Cancellable =>
        /\ sinceDone <= 1
        /\ (done /\ pc = "receive") => sinceDone = 1

C2_Witness ==
    /\ driver \in Cancellable
    /\ done
    /\ sinceDone = 1
    /\ calls # << >>
    /\ pc = "returned"

\* C3: callbacks follow the order of the frames: the invocations of one
\* read are in the order of the places of their frames, the frames are taken
\* in arrival order, one at a time, a callback is made only for a frame
\* already taken, and the loop goes back to the next read only when every
\* message of this read has been taken.
C3_FrameOrder ==
    /\ \A j, k \in 1..Len(calls) : j < k => calls[j].at <= calls[k].at
    /\ \A j, k \in 1..Len(seen) : j < k => seen[j].at < seen[k].at
    /\ \A k \in 1..Len(calls) : \E j \in 1..Len(seen) : seen[j].at = calls[k].at
    /\ (driver \in PreSplit /\ lastRead = "ok") =>
          /\ \A j \in 1..Len(seen) : seen[j].at = j
          /\ Len(seen) = idx
          /\ (pc # "dispatch" => idx = Len(msgs))
    /\ pc = "receive" => (calls = << >> /\ seen = << >>)

C3_Witness ==
    /\ pc = "select"
    /\ Len(calls) >= 2
    /\ calls[1].at < calls[2].at

\* C4: a buffer of K well-formed regular frames, each padded to the
\* alignment boundary, yields exactly K callback invocations of
\* GetRawAuditMessages, with the type codes and payloads of the frames.
C4_SplittingComplete ==
    (driver = "GetRawAuditMessages" /\ CycleOver
        /\ layout.tail = 0 /\ AllPadded(layout) /\ AllRegular(layout)) =>
        /\ pc # "panicked"
        /\ Delivered =
             [k \in 1..Len(layout.chunks) |->
                 RawEventTypeCall(layout.chunks[k].type,
                                  Slice(layout.chunks[k].body, 0,
                                        layout.chunks[k].len - NLMSG_HDRLEN),
                                  ErrNil)]

\* C5, as claimed: in every driver a regular frame whose type code has no
\* registered name produces a callback invocation with a decode-failure
\* error, never one with a nil error.
C5_UnknownTypeEveryDriver ==
    \A j \in 1..Len(seen) :
        Unregistered(seen[j].type) =>
            /\ CallsAt(seen[j].at) >= 1
            /\ \A k \in 1..Len(calls) :
                   calls[k].at = seen[j].at => calls[k].cb.err # ErrNil

\* C5, amended: that holds in GetAuditEvents, GetAuditMessages and
\* GetRawAuditEvents, where the invocation carries an error and no event or
\* text; GetRawAuditMessages resolves no name and delivers the frame with
\* its numeric type code and a nil error.
C5_UnknownTypeDetection ==
    \A j \in 1..Len(seen) :
        Unregistered(seen[j].type) =>
            /\ CallsAt(seen[j].at) = 1
            /\ \A k \in 1..Len(calls) :
                   calls[k].at = seen[j].at =>
                       CASE driver = "GetRawAuditMessages" ->
                                /\ calls[k].cb.err = ErrNil
                                /\ calls[k].cb.type = seen[j].type
                         [] driver = "GetRawAuditEvents" ->
                                /\ calls[k].cb.err = ErrUnknownType(seen[j].type)
                                /\ calls[k].cb.m = << >>
                         [] OTHER ->
                                /\ calls[k].cb.err \in
                                      {ErrParse, ErrUnknownMessageType(seen[j].type)}
                                /\ calls[k].cb.ev = NilEvent

C5_Witness ==
    /\ driver = "GetAuditMessages"
    /\ \E k \in 1..Len(calls) :
           calls[k].cb.err = ErrUnknownMessageType(UNREGISTERED)

C7_QuirkHandling ==
    (driver = "GetRawAuditMessages" /\ CycleOver
        /\ Len(layout.chunks) = 1 /\ layout.tail = 0 /\ AllRegular(layout)
        /\ layout.chunks[1].len >= NLMSG_HDRLEN
        /\ layout.chunks[1].len = Len(rbuf)) =>
        /\ pc # "panicked"
        /\ Len(calls) = 1
        /\ calls[1].cb.m = SliceFrom(rbuf, NLMSG_HDRLEN)

C9_EventuallyReturns ==
    (driver \in Cancellable /\ done) ~> (pc = "returned")

\* C10: every regular frame of a successful read gets exactly one callback
\* invocation: each frame the loop has taken, each regular message of the
\* read once the loop is over, and each regular frame of a buffer of padded
\* frames.
C10_OncePerRegularFrame ==
    /\ \A j \in 1..Len(seen) :
           seen[j].type # NLMSG_ERROR => CallsAt(seen[j].at) = 1
    /\ (driver \in PreSplit /\ CycleOver) =>
           \A p \in 1..Len(msgs) :
               msgs[p].Type # NLMSG_ERROR => CallsAt(p) = 1
    /\ (driver = "GetRawAuditMessages" /\ CycleOver /\ AllPadded(layout)) =>
           \A k \in 1..Len(layout.chunks) :
               layout.chunks[k].type # NLMSG_ERROR =>
                   CallsAt(ChunkOffset(layout, k)) = 1

C10_Witness ==
    /\ driver = "GetAuditEvents"
    /\ CycleOver
    /\ Len(msgs) = 2
    /\ msgs[1].Type # NLMSG_ERROR /\ msgs[2].Type # NLMSG_ERROR
    /\ Len(calls) = 2
    /\ calls[1].cb.err # ErrNil

\* the header at the front of b announces a length below the header size or
\* above len(b)
BadHeader(bb) ==
    \/ Uint32LE(Slice(bb, 0, 4)) < NLMSG_HDRLEN
    \/ Uint32LE(Slice(bb, 0, 4)) > Len(bb)

\* C11: when the splitter meets a header whose length is below the header
\* size or above what is left of the buffer, it stops: that step makes no
\* callback invocation, keeps the ones made, takes nothing more from the
\* buffer and puts the driver back at its select; and the splitter leaves a
\* buffer with a whole header in it only that way.
C11_BadHeaderStops ==
    [][ (driver = "GetRawAuditMessages" /\ pc = "dispatch"
            /\ Len(b) >= NLMSG_HDRLEN /\ BadHeader(b)) =>
          /\ calls' = calls
          /\ seen' = seen
          /\ b' = b
          /\ pc' \in {"select", "dispatch"}
          /\ (pc' = "dispatch" => done' # done) ]_vars

C11_Witness ==
    /\ driver = "GetRawAuditMessages"
    /\ pc = "select"
    /\ lastRead = "ok"
    /\ Len(b) >= NLMSG_HDRLEN
    /\ Uint32LE(Slice(b, 0, 4)) < NLMSG_HDRLEN
    /\ Len(calls) >= 1

\* n rounded up to the next multiple of a
RoundUp(n, a) == n + ((a - (n % a)) % a)

\* C12: after a frame the splitter reads the next header at
\* round_up(header.length, ALIGN) bytes from the start of the frame, whether
\* the frame took the quirk branch or not.
C12_AlignedAdvance ==
    (driver = "GetRawAuditMessages" /\ lastRead = "ok") =>
        /\ \A j \in 1..(Len(seen) - 1) :
               seen[j + 1].at = seen[j].at + RoundUp(seen[j].len, NLMSG_ALIGNTO)
        /\ (seen # << >> /\ pc # "panicked") =>
               Len(rbuf) - Len(b) =
                   seen[Len(seen)].at + RoundUp(seen[Len(seen)].len, NLMSG_ALIGNTO)

C12_Witness ==
    /\ driver = "GetRawAuditMessages"
    /\ pc = "select"
    /\ Len(seen) = 2
    /\ ~seen[1].quirk
    /\ seen[1].len % NLMSG_ALIGNTO # 0
    /\ seen[2].quirk
    /\ seen[2].at = RoundUp(seen[1].len, NLMSG_ALIGNTO)

\* the quirk test of the splitter holds for the j-th frame taken: what is
\* left of the buffer behind its header is header.length bytes long, or the
\* aligned payload length equals header.length
QuirkCase(j) ==
    \/ Len(rbuf) - (seen[j].at + NLMSG_HDRLEN) = seen[j].len
    \/ RoundUp(seen[j].len, NLMSG_ALIGNTO) - NLMSG_HDRLEN = seen[j].len

\* bytes [lo : hi] of the j-th frame taken, counted from the start of the frame
FrameBytes(j, lo, hi) == Slice(rbuf, seen[j].at + lo, seen[j].at + hi)

\* C13, as claimed: when the quirk test holds, the payload delivered is
\* bytes [header_size : header.length] of the frame.
C13_QuirkPayloadToHeaderLength ==
    driver = "GetRawAuditMessages" =>
        \A j \in 1..Len(seen) : \A k \in 1..Len(calls) :
            (QuirkCase(j) /\ calls[k].at = seen[j].at) =>
                calls[k].cb.m = FrameBytes(j, NLMSG_HDRLEN, seen[j].len)

\* C13, amended: when the quirk test holds, the payload delivered is the
\* header.length bytes behind the header, bytes
\* [header_size : header_size + header.length] of the frame; when it does
\* not, bytes [header_size : header.length].
C13_QuirkPayload ==
    driver = "GetRawAuditMessages" =>
        \A j \in 1..Len(seen) : \A k \in 1..Len(calls) :
            calls[k].at = seen[j].at =>
                calls[k].cb.m =
                    IF QuirkCase(j)
                    THEN FrameBytes(j, NLMSG_HDRLEN, NLMSG_HDRLEN + seen[j].len)
                    ELSE FrameBytes(j, NLMSG_HDRLEN, seen[j].len)

C13_Witness ==
    /\ driver = "GetRawAuditMessages"
    /\ \E j \in 1..Len(seen) : \E k \in 1..Len(calls) :
          /\ QuirkCase(j)
          /\ calls[k].at = seen[j].at
          /\ Len(calls[k].cb.m) = seen[j].len
          /\ seen[j].len = 17

\* the callback invocations of the cycle were made in the order of their places
CallsInOrder ==
    \A j, k \in 1..Len(calls) : j < k => calls[j].at <= calls[k].at

\* the dispatch of the last read has come to its end: the range loop has
\* taken every message, the splitter loop has met its end condition, and
\* every regular frame taken has its callback
DispatchOver ==
    /\ IF driver \in PreSplit
       THEN /\ idx = Len(msgs)
            /\ Len(seen) = Len(msgs)
            /\ \A k \in 1..Len(msgs) : seen[k].at = k
       ELSE Len(b) < NLMSG_HDRLEN \/ BadHeader(b)
    /\ \A j \in 1..Len(seen) :
          seen[j].type # NLMSG_ERROR => CallsAt(seen[j].at) = 1
    /\ CallsInOrder

\* C14: a cancellable driver returns only from the select at the head of its
\* loop: never out of a Transport read, and after a read that succeeded only
\* when every frame of that read has been dispatched, callbacks in order.
C14_CancelAtBoundaries ==
    [][ (driver \in Cancellable /\ pc # "returned" /\ pc' = "returned") =>
          /\ pc = "select"
          /\ done
          /\ lastRead # "pending" \/ (calls = << >> /\ sinceDone = 0)
          /\ lastRead = "ok" => DispatchOver
          /\ calls' = calls ]_vars

C14_Witness ==
    /\ driver \in Cancellable
    /\ pc = "returned"
    /\ lastRead = "ok"
    /\ sinceDone = 1
    /\ Len(calls) >= 2
    /\ calls[1].at # calls[2].at

\* the drivers that decode with NewAuditEvent
Decoding == {"GetAuditEvents", "GetAuditMessages"}

\* the errors of the callback invocations made for the frame at place p
ErrsAt(p) == {calls[k].cb.err : k \in {i \in 1..Len(calls) : calls[i].at = p}}

\* C15, as claimed: a frame whose type resolves to the placeholder is
\* answered with the unknown-message-type failure carrying the code,
\* whatever the parser returns, and the parser is not consulted for it.
C15_UnknownTypeWhateverParser ==
    driver \in Decoding =>
        \A j \in 1..Len(seen) :
            Unregistered(seen[j].type) =>
                /\ ErrsAt(seen[j].at) = {ErrUnknownMessageType(seen[j].type)}
                /\ seen[j].parse = "none"

\* C15, amended: NewAuditEvent calls the parser first, for every frame that
\* is not an error frame. If the parser fails, its error is the outcome,
\* also for a type that resolves to the placeholder; if the parser succeeds
\* and the type resolves to the placeholder, the outcome is the
\* unknown-message-type failure carrying the code. Either way the callback
\* gets one error and no event.
C15_ParserFirst ==
    driver \in Decoding =>
        \A j \in 1..Len(seen) :
            /\ seen[j].type # NLMSG_ERROR => seen[j].parse \in ParseOutcomes
            /\ Unregistered(seen[j].type) =>
                  /\ CallsAt(seen[j].at) = 1
                  /\ ErrsAt(seen[j].at) =
                        IF seen[j].parse = "error" THEN {ErrParse}
                        ELSE {ErrUnknownMessageType(seen[j].type)}
                  /\ \A k \in 1..Len(calls) :
                        calls[k].at = seen[j].at => calls[k].cb.ev = NilEvent

C15_Witness ==
    /\ driver \in Decoding
    /\ \E i, j \in 1..Len(seen) :
          /\ Unregistered(seen[i].type) /\ seen[i].parse = "error"
          /\ ErrsAt(seen[i].at) = {ErrParse}
          /\ Unregistered(seen[j].type) /\ seen[j].parse = "ok"
          /\ ErrsAt(seen[j].at) = {ErrUnknownMessageType(UNREGISTERED)}

\* the value of four little-endian bytes read as a two's-complement 32-bit
\* word: the low 31 bits, less 2^31 when the top bit is set
TwosComplement(w) ==
    LET low == w[1] + 256 * w[2] + 65536 * w[3] + 16777216 * (w[4] % 128)
    IN  IF w[4] >= 128 THEN (low - 2147483647) - 1 ELSE low

\* the bytes behind the header of the j-th frame taken, as the Transport
\* returned them
BodyOf(j) ==
    IF driver \in PreSplit THEN msgs[seen[j].at].Data
    ELSE SliceFrom(rbuf, seen[j].at + NLMSG_HDRLEN)

\* the claim of C16 for the drivers ds
SignedCodeIn(ds) ==
    driver \in ds =>
        \A j \in 1..Len(seen) :
            (seen[j].type = NLMSG_ERROR /\ Len(BodyOf(j)) >= 4) =>
                LET code == TwosComplement(Slice(BodyOf(j), 0, 4))
                IN  /\ seen[j].code = code
                    /\ CallsAt(seen[j].at) = 0 <=> code = 0
                    /\ ErrsAt(seen[j].at) \subseteq {ErrReceiving(code)}

\* C16: the code of an error frame is the two's-complement value of the
\* first 4 bytes of its body, the callback error carries that signed value,
\* and the frame is suppressed if and only if the code is zero.
C16_SignedCode == SignedCodeIn(Drivers)

\* the buffer a raw read returns for the frames that Receive hands over as
\* the messages ms: each with its header, its length counting header and
\* data, padded to the alignment boundary
BufferOf(ms) ==
    Concat([k \in 1..Len(ms) |->
               Header(NLMSG_HDRLEN + Len(ms[k].Data), ms[k].Type) \o ms[k].Data
                 \o Zeros(nlmAlignOf(Len(ms[k].Data)) - Len(ms[k].Data))])

\* the callback invocations the splitter loop of GetRawAuditMessages makes
\* for the buffer bb
RECURSIVE SplitAll(_)
SplitAll(bb) ==
    IF Len(bb) < NLMSG_HDRLEN THEN << >>
    ELSE LET r == SplitIteration(bb, [roomy |-> TRUE, stale |-> 0])
         IN  IF r.end = "next" THEN r.made \o SplitAll(r.b) ELSE r.made

\* the callback invocations the driver d makes in one cycle whose read
\* returned the frames ms, the parser answering outs[k] for the k-th
Variant(d, ms, outs) ==
    IF d = "GetRawAuditMessages" THEN SplitAll(BufferOf(ms))
    ELSE Concat([k \in 1..Len(ms) |-> LoopBody(d, ms[k], outs[k])])

\* the other termination mode of the same output shape
Counterpart(d) ==
    CASE d = "GetAuditEvents"      -> "GetAuditMessages"
      [] d = "GetAuditMessages"    -> "GetAuditEvents"
      [] d = "GetRawAuditEvents"   -> "GetRawAuditMessages"
      [] d = "GetRawAuditMessages" -> "GetRawAuditEvents"

\* per callback invocation, whether it carried an error
Outcomes(cs) == [k \in 1..Len(cs) |-> cs[k].err # ErrNil]

\* the answers the parser gave in this cycle, "ok" where it was not asked
Answers == [k \in 1..Len(seen) |-> IF seen[k].parse = "none" THEN "ok" ELSE seen[k].parse]

\* the claim of C17 for the drivers ds: what the driver has delivered for
\* the messages taken so far is what its counterpart delivers for them
SameAsCounterpart(ds) ==
    (driver \in ds /\ driver \in PreSplit /\ lastRead = "ok") =>
        Outcomes(Delivered) =
            Outcomes(Variant(Counterpart(driver), SubSeq(msgs, 1, idx), Answers))

\* C17: for the same read results the unbounded and the cancellable variant
\* of one output shape make the same sequence of callback invocations:
\* same number, same order, same error or no-error outcome.
C17_VariantsAgree == SameAsCounterpart(Drivers)

\* C18: every slice the splitter takes stays inside what is left of the
\* buffer: each frame taken lies in the buffer with its padding, an error
\* frame has the 4 bytes of its code, and the splitter never faults.
C18_SplitterInBounds ==
    driver = "GetRawAuditMessages" =>
        /\ pc # "panicked"
        /\ \A j \in 1..Len(seen) :
              /\ seen[j].at + RoundUp(seen[j].len, NLMSG_ALIGNTO) <= Len(rbuf)
              /\ seen[j].type = NLMSG_ERROR =>
                    seen[j].at + NLMSG_HDRLEN + 4 <= Len(rbuf)

\* C19: in a buffer of frames padded to the alignment boundary, every
\* payload delivered consists of bytes of its own frame's extent
\* [H, round_up(header.length)) only: it is a prefix of that extent, and
\* never reaches into the frame behind it.
C19_PayloadWithinFrame ==
    (driver = "GetRawAuditMessages" /\ AllPadded(layout)) =>
        \A j \in 1..Len(seen) : \A k \in 1..Len(calls) :
            calls[k].at = seen[j].at =>
                /\ Len(calls[k].cb.m) <= RoundUp(seen[j].len, NLMSG_ALIGNTO) - NLMSG_HDRLEN
                /\ calls[k].cb.m = FrameBytes(j, NLMSG_HDRLEN, NLMSG_HDRLEN + Len(calls[k].cb.m))

\* C20: the splitter loop ends after finitely many iterations: every
\* iteration that takes a frame leaves at least NLMSG_HDRLEN bytes fewer
\* in b, so the frames taken and the callback invocations made for a buffer
\* of length L number at most L div NLMSG_HDRLEN.
C20_SplitterTerminates ==
    (driver = "GetRawAuditMessages" /\ lastRead = "ok") =>
        /\ \A j \in 1..(Len(seen) - 1) :
               seen[j + 1].at >= seen[j].at + NLMSG_HDRLEN
        /\ seen # << >> =>
               Len(rbuf) - Len(b) >= seen[Len(seen)].at + NLMSG_HDRLEN
        /\ Len(seen) <= Len(rbuf) \div NLMSG_HDRLEN
        /\ Len(calls) <= Len(rbuf) \div NLMSG_HDRLEN
        /\ Len(b) <= Len(rbuf)

C20_Witness ==
    /\ driver = "GetRawAuditMessages"
    /\ pc = "select"
    /\ lastRead = "ok"
    /\ Len(seen) = 2
    /\ Len(calls) = 2
    /\ Len(rbuf) \div NLMSG_HDRLEN = 2
    /\ Len(b) = 0

====
